---- MODULE Spec2Model ----
(***************************************************************************)
(* f1nanc3: the FIRE projection engine (src/src/f1nanc3/fire_calculator.py) *)
(* as a state machine.                                                     *)
(*                                                                         *)
(* Numbers.  The program computes with Python floats.  The model computes  *)
(* with fixed-point integers, every operation rounded to the nearest       *)
(* representable value as a float operation is:                            *)
(*   money  (net worth, expenses, savings, FIRE number): thousandths of a  *)
(*          unit, so 5000 is written 5000 * MoneyScale;                    *)
(*   rates  (returns, withdrawal rate, growth factors, ratios): 10^-9, so  *)
(*          0.06 is 60 * RateUnit and 1.0 is RateScale;                    *)
(*   years  (the result of calculate_years_to_fire): 10^-6 of a year.      *)
(* A profile is written in whole money units and in thousandths for rates  *)
(* (annual_return = 60 is 0.06, safe_withdrawal_rate = 40 is 0.04).        *)
(***************************************************************************)
EXTENDS Integers, Sequences, FiniteSets, TLC

VARIABLES
    holdings,     \* InvestmentPortfolio.holdings: ticker -> quantity
    assets,       \* Portfolio.assets: the list of Asset objects
    calc,         \* the FIRECalculator object (NoCalc before __init__ ran)
    op,           \* the method being executed or last executed
    pc,           \* "new" | "ready" | "loop" | "returned"
    args,         \* the arguments of the call
    fire_number,  \* local of calculate_years_to_fire
    monthly_rate, \* local of calculate_years_to_fire / generate_timeline
    months,       \* local of calculate_years_to_fire; loop index of generate_timeline
    net_worth,    \* local of calculate_years_to_fire / generate_timeline
    timeline,     \* local of generate_timeline
    scenarios,    \* local of simulate_scenarios
    idx,          \* position of simulate_scenarios in its two nested loops
    result        \* what the last call returned or raised

vars == <<holdings, assets, calc, op, pc, args, fire_number, monthly_rate, months, net_worth,
          timeline, scenarios, idx, result>>

----------------------------------------------------------------------------
(* Fixed-point arithmetic *)

MoneyScale == 1000
RateUnit == 1000000
RateScale == 1000000000
YearScale == 1000000
PerCent == 100
PerMille == 1000
PercentScale == 1000

\* F(v) with v evaluated once and bound before F is applied.
Bind(v, F(_)) == CHOOSE out \in {F(x) : x \in {v}} : TRUE

\* <<q, r>> with a * b = q * d + r and 0 <= r < d, for 0 <= a < d and b >= 0,
\* computed by doubling so that no intermediate value exceeds 2 * d.
RECURSIVE MulDivQR(_, _, _)
MulDivQR(a, b, d) ==
    IF b = 0 THEN <<0, 0>>
    ELSE Bind(MulDivQR(a, b \div 2, d),
              LAMBDA h :
                LET carry == h[2] >= d - h[2]
                    q2 == 2 * h[1] + (IF carry THEN 1 ELSE 0)
                    r2 == IF carry THEN h[2] - (d - h[2]) ELSE 2 * h[2]
                IN  IF b % 2 = 0 THEN <<q2, r2>>
                    ELSE IF r2 >= d - a THEN <<q2 + 1, r2 - (d - a)>>
                    ELSE <<q2, r2 + a>>)

\* a * b / d rounded to the nearest integer (b >= 0, d > 0, a of either sign).
MulDivR(a, b, d) ==
    Bind(MulDivQR(a % d, b, d),
         LAMBDA h : (a \div d) * b + h[1] + (IF h[2] >= d - h[2] THEN 1 ELSE 0))

\* float * float (money * rate -> money, rate * rate -> rate): a * b / RateScale
\* rounded to the nearest integer, for b >= 0 and a of either sign.  The factors
\* are split in three limbs of three decimal digits so that no partial product
\* leaves the 32-bit range.
FMul(a, b) ==
    LET a0 == a % 1000
        a1 == (a \div 1000) % 1000
        a2 == a \div 1000000
        b0 == b % 1000
        b1 == (b \div 1000) % 1000
        b2 == b \div 1000000
        c0 == a0 * b0
        c1 == a1 * b0 + a0 * b1
        c2 == a2 * b0 + a1 * b1 + a0 * b2
        c3 == a2 * b1 + a1 * b2
        c4 == a2 * b2
    IN  c4 * 1000 + c3 + ((c2 + 500 + ((c1 + (c0 \div 1000)) \div 1000)) \div 1000)

\* float / float: money / rate -> money, money / money -> rate
FDiv(a, b) == MulDivR(a, RateScale, b)

\* Values a method can hand back.
Return(v) == [kind |-> "return", value |-> v]
Raise(e) == [kind |-> "raise", value |-> e]
NoResult == [kind |-> "none", value |-> 0]

\* A float is a finite number or float("inf").
Num(v) == [inf |-> FALSE, v |-> v]
Inf == [inf |-> TRUE, v |-> 0]

NoneVal == [none |-> TRUE]

----------------------------------------------------------------------------
(* The FIRECalculator object *)

NoCalc == <<>>

\* FIRECalculator.__init__: stores its six arguments, checks nothing.
FIRECalculator(nw, savings, ret, expenses, swr, infl) ==
    [current_net_worth |-> nw,
     monthly_savings |-> savings,
     annual_return |-> ret,
     annual_expenses |-> expenses,
     safe_withdrawal_rate |-> swr,
     inflation_rate |-> infl]

DefaultSafeWithdrawalRate == 40
DefaultInflationRate == 30

Money(x) == x * MoneyScale
Rate(x) == x * RateUnit

\* Mutant: the "25x annual expenses" of the docstring taken literally.
calculate_fire_number_25x(self) ==
    IF self.safe_withdrawal_rate = 0
    THEN Raise("ZeroDivisionError")
    ELSE Return(Num(Money(self.annual_expenses) * 25))

\* calculate_fire_number: annual_expenses / safe_withdrawal_rate
calculate_fire_number(self) ==
    IF self.safe_withdrawal_rate = 0
    THEN Raise("ZeroDivisionError")
    ELSE Return(Num(FDiv(Money(self.annual_expenses), Rate(self.safe_withdrawal_rate))))

\* x ** 12 for a rate x, by squaring
Pow12(x) ==
    Bind(FMul(x, x), LAMBDA x2 :
    Bind(FMul(x2, x2), LAMBDA x4 :
    Bind(FMul(x4, x4), LAMBDA x8 : FMul(x8, x4))))

\* The largest growth factor the fixed-point format can raise to the 12th power.
RootMax == 1065 * RateUnit

\* x ** (1 / 12): the least rate whose 12th power reaches x, found by bisection.
RECURSIVE RootSearch(_, _, _)
RootSearch(x, lo, hi) ==
    IF lo >= hi THEN lo
    ELSE Bind(lo + ((hi - lo) \div 2),
              LAMBDA mid : IF Pow12(mid) >= x THEN RootSearch(x, lo, mid)
                           ELSE RootSearch(x, mid + 1, hi))

Root12(x) == RootSearch(x, 0, RootMax)

\* (1 + self.annual_return) ** (1 / 12) - 1
MonthlyRate(self) == Root12(RateScale + Rate(self.annual_return)) - RateScale

MonthsPerYear == 12
MaxYears == 100

\* months / 12
YearsOf(m) == (m * YearScale + (MonthsPerYear \div 2)) \div MonthsPerYear

\* Mutant: the loop goes on while the target is not exceeded.
LoopCondReached(nw, m, fn) == nw <= fn /\ m < MonthsPerYear * MaxYears

\* Mutant: the ceiling tested with <= instead of <.
LoopCondInclusive(nw, m, fn) == nw < fn /\ m <= MonthsPerYear * MaxYears

\* The guard of the while loop of calculate_years_to_fire.
LoopCond(nw, m, fn) == nw < fn /\ m < MonthsPerYear * MaxYears

\* Mutant: every monthly rate, gain or loss, shrinks the balance.
CompoundShrinking(self, nw, rate) ==
    FMul(nw, RateScale - (IF rate < 0 THEN -rate ELSE rate)) + Money(self.monthly_savings)

\* net_worth * (1 + monthly_rate) + self.monthly_savings
Compound(self, nw, rate) == FMul(nw, RateScale + rate) + Money(self.monthly_savings)

\* The while loop of calculate_years_to_fire run for at most k iterations from
\* the loop state st = <<net_worth, months>>.  The run is split in halves and
\* the state after the first half is bound before the second half starts.
RECURSIVE RunLoop(_, _, _, _, _)
RunLoop(self, st, fn, rate, k) ==
    IF k = 0 \/ ~LoopCond(st[1], st[2], fn) THEN st
    ELSE IF k = 1 THEN <<Compound(self, st[1], rate), st[2] + 1>>
    ELSE Bind(RunLoop(self, st, fn, rate, k \div 2),
              LAMBDA half : RunLoop(self, half, fn, rate, k - (k \div 2)))

\* Mutant: the already-met test moved before the savings test.
YearsEntryMetFirst(self) ==
    Bind(calculate_fire_number(self), LAMBDA fn :
        IF fn.kind = "raise"
        THEN [returns |-> TRUE, result |-> fn, fire_number |-> 0]
        ELSE IF Money(self.current_net_worth) >= fn.value.v
        THEN [returns |-> TRUE, result |-> Return(Num(0)), fire_number |-> fn.value.v]
        ELSE IF self.monthly_savings <= 0
        THEN [returns |-> TRUE, result |-> Return(Inf), fire_number |-> fn.value.v]
        ELSE [returns |-> FALSE, result |-> NoResult, fire_number |-> fn.value.v])

\* calculate_years_to_fire up to its loop: the FIRE number and the two early
\* returns, the savings test first and the already-met test second.
YearsEntry(self) ==
    Bind(calculate_fire_number(self), LAMBDA fn :
        IF fn.kind = "raise"
        THEN [returns |-> TRUE, result |-> fn, fire_number |-> 0]
        ELSE IF self.monthly_savings <= 0
        THEN [returns |-> TRUE, result |-> Return(Inf), fire_number |-> fn.value.v]
        ELSE IF Money(self.current_net_worth) >= fn.value.v
        THEN [returns |-> TRUE, result |-> Return(Num(0)), fire_number |-> fn.value.v]
        ELSE [returns |-> FALSE, result |-> NoResult, fire_number |-> fn.value.v])

\* calculate_years_to_fire, from call to return
calculate_years_to_fire(self) ==
    Bind(YearsEntry(self), LAMBDA entry :
        IF entry.returns THEN entry.result
        ELSE Bind(MonthlyRate(self), LAMBDA rate :
             Bind(RunLoop(self, <<Money(self.current_net_worth), 0>>, entry.fire_number,
                          rate, MonthsPerYear * MaxYears),
                  LAMBDA end : Return(Num(YearsOf(end[2]))))))

\* (net_worth / fire_number) * 100, in thousandths of a percent
Progress(nw, fn) == MulDivR(nw, PerCent * PercentScale, fn)

\* Mutant: the entry records the net worth before the month's growth.
TimelineEntryBeforeGrowth(self, nw, month, rate) ==
    Bind(calculate_fire_number(self), LAMBDA fn :
        IF fn.kind = "raise" THEN fn
        ELSE IF fn.value.v = 0 THEN Raise("ZeroDivisionError")
        ELSE Return([net_worth |-> nw,
                     year |-> month \div MonthsPerYear,
                     month |-> month % MonthsPerYear,
                     progress |-> Progress(nw, fn.value.v)]))

\* One entry of the timeline: lines 69-75 for loop index month, from the net
\* worth before the iteration.  Dividing by a FIRE number of 0.0 raises.
TimelineEntry(self, nw, month, rate) ==
    Bind(Compound(self, nw, rate), LAMBDA grown :
    Bind(calculate_fire_number(self), LAMBDA fn :
        IF fn.kind = "raise" THEN fn
        ELSE IF fn.value.v = 0 THEN Raise("ZeroDivisionError")
        ELSE Return([net_worth |-> grown,
                     year |-> month \div MonthsPerYear,
                     month |-> month % MonthsPerYear,
                     progress |-> Progress(grown, fn.value.v)])))

\* x ** n for a rate x and an integer n >= 0
RECURSIVE PowNat(_, _)
PowNat(x, n) ==
    IF n = 0 THEN RateScale
    ELSE Bind(PowNat(x, n - 1), LAMBDA p : FMul(p, x))

\* x ** n for a rate x and an integer n of either sign; 0.0 to a negative
\* power raises.
PowInt(x, n) ==
    IF n >= 0 THEN Return(PowNat(x, n))
    ELSE IF x = 0 THEN Raise("ZeroDivisionError")
    ELSE Bind(PowNat(x, -n), LAMBDA p : Return(FDiv(RateScale, p)))

\* Mutant: the FIRE number grown forward instead of discounted.
calculate_coast_fire_grown(self, target_age, current_age) ==
    Bind(calculate_fire_number(self), LAMBDA fn :
        IF fn.kind = "raise" THEN fn
        ELSE Bind(PowInt(RateScale + Rate(self.annual_return), target_age - current_age),
                  LAMBDA growth :
                    IF growth.kind = "raise" THEN growth
                    ELSE Return(Num(FMul(fn.value.v, growth.value)))))

\* calculate_coast_fire: fire_number / ((1 + annual_return) ** (target_age - current_age))
calculate_coast_fire(self, target_age, current_age) ==
    Bind(calculate_fire_number(self), LAMBDA fn :
        IF fn.kind = "raise" THEN fn
        ELSE Bind(PowInt(RateScale + Rate(self.annual_return), target_age - current_age),
                  LAMBDA growth :
                    IF growth.kind = "raise" THEN growth
                    ELSE IF growth.value = 0 THEN Raise("ZeroDivisionError")
                    ELSE Return(Num(FDiv(fn.value.v, growth.value)))))

\* Mutant: float("inf") handed on as it is.
NoneIfInfKept(years) == years

\* None if years_to_fire == float("inf") else years_to_fire
NoneIfInf(years) == IF years.inf THEN NoneVal ELSE years

\* current_net_worth / fire_number * 100 if fire_number > 0 else 0.0
ProgressPercent(self, fn) ==
    IF fn > 0 THEN Progress(Money(self.current_net_worth), fn) ELSE 0

\* summary, from call to return
summary(self) ==
    Bind(calculate_fire_number(self), LAMBDA fn :
        IF fn.kind = "raise" THEN fn
        ELSE Bind(calculate_years_to_fire(self), LAMBDA years :
            IF years.kind = "raise" THEN years
            ELSE Return([fire_number |-> fn.value,
                         current_net_worth |-> self.current_net_worth,
                         progress_percent |-> ProgressPercent(self, fn.value.v),
                         years_to_fire |-> NoneIfInf(years.value),
                         monthly_savings |-> self.monthly_savings,
                         annual_expenses |-> self.annual_expenses,
                         annual_return |-> self.annual_return])))

\* Mutant: the scenario built on the caller's own monthly_savings.
ScenarioCalcOwnSavings(self, savings, return_rate) ==
    FIRECalculator(self.current_net_worth, self.monthly_savings, return_rate,
                   self.annual_expenses, self.safe_withdrawal_rate, DefaultInflationRate)

\* The calculator simulate_scenarios builds for one (savings, return) pair.
ScenarioCalc(self, savings, return_rate) ==
    FIRECalculator(self.current_net_worth, savings, return_rate,
                   self.annual_expenses, self.safe_withdrawal_rate, DefaultInflationRate)

\* x / d rounded to the nearest integer, ties to the even one (x >= 0)
RoundHalfEven(x, d) ==
    LET q == x \div d
        r == x % d
    IN  IF 2 * r > d \/ (2 * r = d /\ q % 2 = 1) THEN q + 1 ELSE q

\* f"${savings}/mo @ {return_rate * 100:.0f}%": the savings as written, the sign
\* of the return and its percentage rounded to a whole number.
ScenarioName(savings, return_rate) ==
    <<savings, return_rate < 0,
      RoundHalfEven((IF return_rate < 0 THEN -return_rate ELSE return_rate) * PerCent,
                    PerMille)>>

\* One pass through the body of the inner loop of simulate_scenarios.
ScenarioEntry(self, savings, return_rate) ==
    Bind(ScenarioCalc(self, savings, return_rate), LAMBDA c :
    Bind(calculate_years_to_fire(c), LAMBDA years :
        IF years.kind = "raise" THEN years
        ELSE Return([years |-> years.value,
                     savings |-> savings,
                     return |-> return_rate,
                     fire_number |-> calculate_fire_number(c).value])))

\* Mutant: an existing key keeps its value.
DictSetFirst(d, k, v) == [x \in DOMAIN d \cup {k} |-> IF x \in DOMAIN d THEN d[x] ELSE v]

\* d[k] = v on a dict
DictSet(d, k, v) == [x \in DOMAIN d \cup {k} |-> IF x = k THEN v ELSE d[x]]

----------------------------------------------------------------------------
(* The second copy of the engine, src/fire_calculator.py                   *)

\* calculate_fire_number of the copy
Top_calculate_fire_number(self) ==
    IF self.safe_withdrawal_rate = 0 THEN Raise("ZeroDivisionError")
    ELSE Return(Num(MulDivR(self.annual_expenses * MoneyScale, RateScale,
                            self.safe_withdrawal_rate * RateUnit)))

\* monthly_rate = (1 + self.annual_return) ** (1/12) - 1
Top_MonthlyRate(self) ==
    RootSearch(RateScale + self.annual_return * RateUnit, 0, RootMax) - RateScale

\* The while loop of the copy, from net worth nw and month count m, for at
\* most k further iterations.
RECURSIVE Top_Loop(_, _, _, _, _, _)
Top_Loop(self, nw, m, fn, rate, k) ==
    IF k = 0 \/ ~(nw < fn /\ m < 12 * 100) THEN <<nw, m>>
    ELSE IF k = 1
    THEN <<FMul(nw, RateScale + rate) + self.monthly_savings * MoneyScale, m + 1>>
    ELSE Bind(Top_Loop(self, nw, m, fn, rate, k \div 2),
              LAMBDA half : Top_Loop(self, half[1], half[2], fn, rate, k - (k \div 2)))

\* Mutant: the copy tests the already-met case before the sign of the savings.
Top_EarlyReturnMetFirst(self, fn) ==
    IF self.current_net_worth * MoneyScale >= fn THEN Return(Num(0))
    ELSE IF self.monthly_savings <= 0 THEN Return(Inf)
    ELSE NoResult

\* The early returns of the copy, in its order: savings first, then (after
\* monthly_rate is computed) the already-met test.
Top_EarlyReturn(self, fn) ==
    IF self.monthly_savings <= 0 THEN Return(Inf)
    ELSE IF self.current_net_worth * MoneyScale >= fn THEN Return(Num(0))
    ELSE NoResult

\* calculate_years_to_fire of the copy
Top_calculate_years_to_fire(self) ==
    Bind(Top_calculate_fire_number(self), LAMBDA fn :
        IF fn.kind = "raise" THEN fn
        ELSE Bind(Top_EarlyReturn(self, fn.value.v), LAMBDA early :
            IF early # NoResult THEN early
            ELSE Bind(Top_MonthlyRate(self), LAMBDA rate :
                 Bind(Top_Loop(self, self.current_net_worth * MoneyScale, 0,
                               fn.value.v, rate, 12 * 100),
                      LAMBDA end : Return(Num((end[2] * YearScale + 6) \div 12))))))

----------------------------------------------------------------------------
(* InvestmentPortfolio (src/f1nanc3/portfolio.py): quantities are held in   *)
(* thousandths of a unit, prices in whole dollars, values in thousandths   *)
(* of a dollar, weights and allocations in units of 10^-9.                 *)

\* a / b for floats of either sign (b # 0), in units of 10^-9
Ratio(a, b) ==
    IF b < 0 THEN (IF a <= 0 THEN FDiv(-a, -b) ELSE -FDiv(a, -b))
    ELSE IF a < 0 THEN -FDiv(-a, b) ELSE FDiv(a, b)

\* quantity * prices[ticker]
AssetValue(quantity, price) == quantity * price

\* Mutant: a holding without a price is looked up all the same.
PricedNoTest(ticker, prices) == TRUE

\* if ticker in prices
Priced(ticker, prices) == ticker \in DOMAIN prices

\* The loop of total_value over the items of a dict, one item at a time.
RECURSIVE SumItems(_, _, _)
SumItems(items, prices, total) ==
    IF DOMAIN items = {} THEN Return(Num(total))
    ELSE LET ticker == CHOOSE t \in DOMAIN items : TRUE
             rest == [t \in DOMAIN items \ {ticker} |-> items[t]]
         IN  IF Priced(ticker, prices)
             THEN IF ticker \in DOMAIN prices
                  THEN SumItems(rest, prices,
                                total + AssetValue(items[ticker], prices[ticker]))
                  ELSE Raise("KeyError")
             ELSE SumItems(rest, prices, total)

\* InvestmentPortfolio.total_value(prices)
total_value(self, prices) == SumItems(self.holdings, prices, 0)

\* asset_value = quantity * prices[ticker]; asset_value / total
Weight(quantity, price, total) == Ratio(AssetValue(quantity, price), total)

\* Mutant: every holding gets a weight, zero when it has no price.
WeightItemsZeroFilled(items, prices, total) ==
    Return([t \in DOMAIN items |->
               IF t \in DOMAIN prices THEN Weight(items[t], prices[t], total) ELSE 0])

\* The loop of weights: weights_dict[ticker] is set for the holdings that
\* have a price.
WeightItems(items, prices, total) ==
    IF \E t \in DOMAIN items : Priced(t, prices) /\ t \notin DOMAIN prices
    THEN Raise("KeyError")
    ELSE Return([t \in {x \in DOMAIN items : Priced(x, prices)} |->
                    Weight(items[t], prices[t], total)])

\* InvestmentPortfolio.weights(prices)
weights(self, prices) ==
    Bind(total_value(self, prices), LAMBDA total :
        IF total.kind = "raise" THEN total
        ELSE IF total.value.v = 0 THEN Return(<<>>)
        ELSE WeightItems(self.holdings, prices, total.value.v))

----------------------------------------------------------------------------
(* Portfolio (src/f1nanc3/portfolio.py): asset values are whole dollars,    *)
(* allocations, targets and tolerances are in units of 10^-9, amounts in   *)
(* thousandths of a dollar, the risk score in thousandths.                *)

ScoreScale == 1000

\* a / b for floats of either sign (b # 0), in units of 1 / scale
ScaledRatio(a, b, scale) ==
    IF b < 0 THEN (IF a <= 0 THEN MulDivR(-a, scale, -b) ELSE -MulDivR(a, scale, -b))
    ELSE IF a < 0 THEN -MulDivR(-a, scale, b) ELSE MulDivR(a, scale, b)

\* The values of the enum AssetClass
AssetClass == {"stocks", "bonds", "crypto", "cash", "real_estate", "commodities"}

\* The values of the enum RiskLevel
RiskLevel == 1 .. 5

DefaultRiskLevel == 3
DefaultTolerance == 50

\* str.lower() on the category strings a caller passes
Lower(category) ==
    CASE category = "STOCKS" -> "stocks"
      [] category = "Cash" -> "cash"
      [] category = "Real_Estate" -> "real_estate"
      [] category = "GOLD" -> "gold"
      [] OTHER -> category

\* Asset(name=..., category=..., value=..., target_allocation=..., risk_level=...,
\* currency=...)
Asset(name, category, value, target_allocation, risk_level, currency) ==
    [name |-> name, category |-> category, value |-> value,
     target_allocation |-> target_allocation, risk_level |-> risk_level,
     currency |-> currency]

\* Mutant: the asset is appended before its category and risk level are looked up.
add_asset_unchecked(list, name, category, value, target_allocation, risk_level, currency) ==
    IF Lower(category) \notin AssetClass \/ risk_level \notin RiskLevel
    THEN [result |-> Raise("ValueError"),
          assets |-> Append(list, Asset(name, Lower(category), value,
                                        target_allocation, risk_level, currency))]
    ELSE [result |-> Return(NoneVal),
          assets |-> Append(list, Asset(name, Lower(category), value,
                                        target_allocation, risk_level, currency))]

\* Portfolio.add_asset: what it returns or raises and the asset list it leaves
add_asset(list, name, category, value, target_allocation, risk_level, currency) ==
    IF Lower(category) \notin AssetClass
    THEN [result |-> Raise("ValueError"), assets |-> list]
    ELSE IF risk_level \notin RiskLevel
    THEN [result |-> Raise("ValueError"), assets |-> list]
    ELSE [result |-> Return(NoneVal),
          assets |-> Append(list, Asset(name, Lower(category), value,
                                        target_allocation, risk_level, currency))]

\* sum(asset.value for asset in self.assets)
RECURSIVE Portfolio_total_value(_)
Portfolio_total_value(list) ==
    IF list = <<>> THEN 0
    ELSE list[1].value + Portfolio_total_value(Tail(list))

\* The loop of get_allocation: allocation[asset.name] = asset.value / total
RECURSIVE AllocationItems(_, _, _)
AllocationItems(list, total, allocation) ==
    IF list = <<>> THEN allocation
    ELSE AllocationItems(Tail(list), total,
                         DictSet(allocation, list[1].name,
                                 ScaledRatio(list[1].value, total, RateScale)))

\* Portfolio.get_allocation
get_allocation(list) ==
    IF Portfolio_total_value(list) = 0 THEN <<>>
    ELSE AllocationItems(list, Portfolio_total_value(list), <<>>)

\* sum(asset.value * asset.risk_level.value for asset in self.assets)
RECURSIVE WeightedRisk(_)
WeightedRisk(list) ==
    IF list = <<>> THEN 0
    ELSE list[1].value * list[1].risk_level + WeightedRisk(Tail(list))

\* Portfolio.calculate_risk_score
calculate_risk_score(list) ==
    IF Portfolio_total_value(list) = 0 THEN Return(Num(0))
    ELSE Return(Num(2 * ScaledRatio(WeightedRisk(list), Portfolio_total_value(list),
                                    ScoreScale)))

\* dict.get(key, 0)
DictGet(d, k) == IF k \in DOMAIN d THEN d[k] ELSE 0

\* The body of the loop of suggest_rebalancing for one asset
Suggestion(asset, current, tolerance, total) ==
    LET diff == current - asset.target_allocation
        absdiff == IF diff < 0 THEN -diff ELSE diff
    IN  [emit |-> absdiff > tolerance,
         value |-> [action |-> IF diff > 0 THEN "sell" ELSE "buy",
                    amount |-> FMul(absdiff, Money(total)),
                    current |-> current,
                    target |-> asset.target_allocation,
                    difference |-> diff]]

\* The loop of suggest_rebalancing over self.assets
RECURSIVE SuggestItems(_, _, _, _, _)
SuggestItems(list, current_allocation, tolerance, total, suggestions) ==
    IF list = <<>> THEN suggestions
    ELSE Bind(Suggestion(list[1], DictGet(current_allocation, list[1].name),
                         tolerance, total),
              LAMBDA s :
                SuggestItems(Tail(list), current_allocation, tolerance, total,
                             IF s.emit THEN DictSet(suggestions, list[1].name, s.value)
                             ELSE suggestions))

\* Portfolio.suggest_rebalancing(tolerance)
suggest_rebalancing(list, tolerance) ==
    Return(SuggestItems(list, get_allocation(list), tolerance,
                        Portfolio_total_value(list), <<>>))

----------------------------------------------------------------------------
(* Inputs *)

NetWorths == {0, 5000, 12000}
SavingsAmounts == {-100, 0, 1, 200, 300}
Returns == {-1000, -100, 0, 60, 80}
Expenses == {0, 480}
WithdrawalRates == {0, 30, DefaultSafeWithdrawalRate}

Profiles ==
    {FIRECalculator(nw, s, r, e, w, DefaultInflationRate) :
        nw \in NetWorths, s \in SavingsAmounts, r \in Returns,
        e \in Expenses, w \in WithdrawalRates}

MaxHorizon == 2
Horizons == 0 .. MaxHorizon

FirstAge == 30
MaxAgeGap == 2
Ages == FirstAge .. (FirstAge + MaxAgeGap)

MaxScenarios == 2
ScenarioSavings == {200, 300}
ScenarioReturns == {60, 65, 80}
ScenarioProfiles ==
    {FIRECalculator(nw, s, 60, e, w, DefaultInflationRate) :
        nw \in {0, 5000}, s \in {0, 200}, e \in {0, 480},
        w \in {0, DefaultSafeWithdrawalRate}}

\* The sequences over S of length at most n
SeqsUpTo(S, n) == UNION {[1 .. k -> S] : k \in 0 .. n}

Tickers == {"TSLA", "BTC"}
OtherTickers == {"VOO"}
Quantities == {-1000, 50, 5000}
Prices == {0, 180, 45000}

\* The dicts with keys in K and values in V
Dicts(K, V) == UNION {[D -> V] : D \in SUBSET K}

HoldingsMaps == Dicts(Tickers, Quantities)
PriceSnapshots == Dicts(Tickers \cup OtherTickers, Prices)

MaxAssets == 2
AssetValues == {-50, 0, 100, 300}
TargetAllocations == {Rate(250), Rate(750)}
Tolerances == {0, Rate(DefaultTolerance), Rate(250)}

\* The arguments of the add_asset calls: two tickers with every value and
\* target, and calls with an unknown category or a risk level out of range.
AddAssetCalls ==
    {<<"VOO", "STOCKS", v, t, 5, "USD">> : v \in AssetValues, t \in TargetAllocations}
    \cup {<<"QQQ", "cash", v, t, 1, "USD">> : v \in AssetValues, t \in TargetAllocations}
    \cup {<<"XAU", "GOLD", 100, Rate(250), DefaultRiskLevel, "USD">>,
          <<"XAU", "gold", 100, Rate(250), DefaultRiskLevel, "USD">>,
          <<"VOO", "stocks", 100, Rate(250), 0, "USD">>,
          <<"VOO", "stocks", 100, Rate(250), 6, "USD">>}

\* The profiles the data model calls valid.
Valid(self) ==
    /\ self.current_net_worth >= 0
    /\ self.annual_expenses >= 0
    /\ self.safe_withdrawal_rate > 0
    /\ self.annual_return > -1000

----------------------------------------------------------------------------
(* Operations *)

Init ==
    /\ holdings = <<>>
    /\ assets = <<>>
    /\ calc = NoCalc
    /\ op = "none"
    /\ pc = "new"
    /\ args = <<>>
    /\ fire_number = 0
    /\ monthly_rate = 0
    /\ months = 0
    /\ net_worth = 0
    /\ timeline = <<>>
    /\ scenarios = <<>>
    /\ idx = <<0, 0>>
    /\ result = NoResult

Idle == pc \in {"ready", "returned"}

\* A call starts with fresh locals and nothing returned yet.
Enter(name, a) ==
    /\ Idle
    /\ op' = name
    /\ args' = a
    /\ calc' = calc
    /\ UNCHANGED <<holdings, assets>>

NoLocals ==
    /\ fire_number' = 0
    /\ monthly_rate' = 0
    /\ months' = 0
    /\ net_worth' = 0
    /\ timeline' = <<>>
    /\ scenarios' = <<>>
    /\ idx' = <<0, 0>>

\* FIRECalculator(...): __init__ runs on the caller's arguments.
Construct(inputs) ==
    /\ pc = "new"
    /\ \E p \in inputs : calc' = p
    /\ op' = "__init__"
    /\ pc' = "ready"
    /\ result' = Return(NoneVal)
    /\ args' = <<>>
    /\ NoLocals
    /\ UNCHANGED <<holdings, assets>>

\* calc.calculate_fire_number()
CallFireNumber ==
    /\ Enter("calculate_fire_number", <<>>)
    /\ result' = calculate_fire_number(calc)
    /\ pc' = "returned"
    /\ NoLocals

\* calc.calculate_years_to_fire(): from the call to the first test of the loop
\* guard, or to one of the early returns.
YearsCall ==
    /\ Enter("calculate_years_to_fire", <<>>)
    /\ timeline' = <<>>
    /\ scenarios' = <<>>
    /\ idx' = <<0, 0>>
    /\ months' = 0
    /\ \E entry \in {YearsEntry(calc)} :
           /\ result' = entry.result
           /\ fire_number' = entry.fire_number
           /\ IF entry.returns
              THEN /\ pc' = "returned"
                   /\ monthly_rate' = 0
                   /\ net_worth' = 0
              ELSE /\ pc' = "loop"
                   /\ monthly_rate' = MonthlyRate(calc)
                   /\ net_worth' = Money(calc.current_net_worth)

\* One iteration of the while loop.
YearsStep ==
    /\ op = "calculate_years_to_fire"
    /\ pc = "loop"
    /\ LoopCond(net_worth, months, fire_number)
    /\ net_worth' = Compound(calc, net_worth, monthly_rate)
    /\ months' = months + 1
    /\ UNCHANGED <<holdings, assets, calc, op, pc, args, fire_number, monthly_rate, timeline,
                   scenarios, idx, result>>

\* The loop guard fails: return months / 12.
YearsReturn ==
    /\ op = "calculate_years_to_fire"
    /\ pc = "loop"
    /\ ~LoopCond(net_worth, months, fire_number)
    /\ result' = Return(Num(YearsOf(months)))
    /\ pc' = "returned"
    /\ UNCHANGED <<holdings, assets, calc, op, args, fire_number, monthly_rate, months, net_worth,
                   timeline, scenarios, idx>>

\* calc.generate_timeline(years): up to the first test of the for loop.
TimelineCall ==
    /\ Idle
    /\ monthly_rate' = MonthlyRate(calc)
    /\ \E years \in Horizons : Enter("generate_timeline", <<years>>)
    /\ timeline' = <<>>
    /\ net_worth' = Money(calc.current_net_worth)
    /\ months' = 0
    /\ pc' = "loop"
    /\ result' = NoResult
    /\ fire_number' = 0
    /\ scenarios' = <<>>
    /\ idx' = <<0, 0>>

\* One iteration of the for loop; an exception ends the call.
TimelineStep ==
    /\ op = "generate_timeline"
    /\ pc = "loop"
    /\ months < args[1] * MonthsPerYear
    /\ \E entry \in {TimelineEntry(calc, net_worth, months, monthly_rate)} :
          IF entry.kind = "raise"
          THEN /\ result' = entry
               /\ pc' = "returned"
               /\ net_worth' = Compound(calc, net_worth, monthly_rate)
               /\ UNCHANGED <<timeline, months>>
          ELSE /\ timeline' = DictSet(timeline, months, entry.value)
               /\ net_worth' = entry.value.net_worth
               /\ months' = months + 1
               /\ UNCHANGED <<result, pc>>
    /\ UNCHANGED <<holdings, assets, calc, op, args, fire_number, monthly_rate, scenarios, idx>>

\* range(years * 12) is exhausted: return timeline.
TimelineReturn ==
    /\ op = "generate_timeline"
    /\ pc = "loop"
    /\ months >= args[1] * MonthsPerYear
    /\ result' = Return(timeline)
    /\ pc' = "returned"
    /\ UNCHANGED <<holdings, assets, calc, op, args, fire_number, monthly_rate, months, net_worth,
                   timeline, scenarios, idx>>

\* calc.calculate_coast_fire(target_age, current_age)
CallCoastFire ==
    /\ \E target_age \in Ages, current_age \in Ages :
          /\ Enter("calculate_coast_fire", <<target_age, current_age>>)
          /\ result' = calculate_coast_fire(calc, target_age, current_age)
    /\ pc' = "returned"
    /\ NoLocals

\* calc.summary()
CallSummary ==
    /\ Enter("summary", <<>>)
    /\ result' = summary(calc)
    /\ pc' = "returned"
    /\ NoLocals

\* calc.simulate_scenarios(savings_rates, returns): up to the first test of the
\* outer for loop.
ScenariosCall ==
    /\ \E savings_rates \in SeqsUpTo(ScenarioSavings, MaxScenarios),
          returns \in SeqsUpTo(ScenarioReturns, MaxScenarios) :
          Enter("simulate_scenarios", <<savings_rates, returns>>)
    /\ scenarios' = <<>>
    /\ idx' = <<1, 1>>
    /\ pc' = "loop"
    /\ result' = NoResult
    /\ fire_number' = 0
    /\ monthly_rate' = 0
    /\ months' = 0
    /\ net_worth' = 0
    /\ timeline' = <<>>

\* The inner loop body for savings_rates[idx[1]] and returns[idx[2]], then on to
\* the next pair; an exception ends the call.
ScenariosStep ==
    /\ op = "simulate_scenarios"
    /\ pc = "loop"
    /\ idx[1] <= Len(args[1])
    /\ idx[2] <= Len(args[2])
    /\ \E entry \in {ScenarioEntry(calc, args[1][idx[1]], args[2][idx[2]])} :
          IF entry.kind = "raise"
          THEN /\ result' = entry
               /\ pc' = "returned"
               /\ UNCHANGED <<scenarios, idx>>
          ELSE /\ scenarios' = DictSet(scenarios,
                                       ScenarioName(args[1][idx[1]], args[2][idx[2]]),
                                       entry.value)
               /\ idx' = IF idx[2] < Len(args[2]) THEN <<idx[1], idx[2] + 1>>
                         ELSE <<idx[1] + 1, 1>>
               /\ UNCHANGED <<result, pc>>
    /\ UNCHANGED <<holdings, assets, calc, op, args, fire_number, monthly_rate, months, net_worth,
                   timeline>>

\* Both loops are exhausted (at once when returns is empty): return scenarios.
ScenariosReturn ==
    /\ op = "simulate_scenarios"
    /\ pc = "loop"
    /\ (idx[1] > Len(args[1]) \/ Len(args[2]) = 0)
    /\ result' = Return(scenarios)
    /\ pc' = "returned"
    /\ UNCHANGED <<holdings, assets, calc, op, args, fire_number, monthly_rate, months, net_worth,
                   timeline, scenarios, idx>>

Next ==
    \/ Construct(Profiles)
    \/ CallFireNumber
    \/ YearsCall
    \/ YearsStep
    \/ YearsReturn
    \/ TimelineCall
    \/ TimelineStep
    \/ TimelineReturn
    \/ CallCoastFire
    \/ CallSummary

Spec == Init /\ [][Next]_vars

NextScenarios ==
    \/ Construct(ScenarioProfiles)
    \/ ScenariosCall
    \/ ScenariosStep
    \/ ScenariosReturn

SpecScenarios == Init /\ [][NextScenarios]_vars

\* calculate_years_to_fire() on a calculator of the copy src/fire_calculator.py
\* built from the same arguments
CallTopYears ==
    /\ Enter("fire_calculator.calculate_years_to_fire", <<>>)
    /\ result' = Top_calculate_years_to_fire(calc)
    /\ pc' = "returned"
    /\ NoLocals

NextCopies ==
    \/ Construct(Profiles)
    \/ YearsCall
    \/ YearsStep
    \/ YearsReturn
    \/ CallTopYears

SpecCopies == Init /\ [][NextCopies]_vars

\* The FIRECalculator side of the state, untouched by the portfolio classes
fire_vars == <<calc, fire_number, monthly_rate, months, net_worth, timeline,
               scenarios, idx>>

\* InvestmentPortfolio(holdings=...): the dataclass stores the mapping.
ConstructInvestment ==
    /\ pc = "new"
    /\ holdings' \in HoldingsMaps
    /\ op' = "InvestmentPortfolio"
    /\ pc' = "ready"
    /\ args' = <<>>
    /\ result' = Return(NoneVal)
    /\ UNCHANGED <<assets, fire_vars>>

\* portfolio.total_value(prices)
CallTotalValue ==
    /\ Idle
    /\ \E prices \in PriceSnapshots :
          /\ args' = <<prices>>
          /\ result' = total_value([holdings |-> holdings], prices)
    /\ op' = "total_value"
    /\ pc' = "returned"
    /\ UNCHANGED <<holdings, assets, fire_vars>>

\* portfolio.weights(prices)
CallWeights ==
    /\ Idle
    /\ \E prices \in PriceSnapshots :
          /\ args' = <<prices>>
          /\ result' = weights([holdings |-> holdings], prices)
    /\ op' = "weights"
    /\ pc' = "returned"
    /\ UNCHANGED <<holdings, assets, fire_vars>>

NextInvestment ==
    \/ ConstructInvestment
    \/ CallTotalValue
    \/ CallWeights

SpecInvestment == Init /\ [][NextInvestment]_vars

\* Portfolio(): __init__ starts with an empty asset list.
ConstructPortfolio ==
    /\ pc = "new"
    /\ assets' = <<>>
    /\ op' = "Portfolio"
    /\ pc' = "ready"
    /\ args' = <<>>
    /\ result' = Return(NoneVal)
    /\ UNCHANGED <<holdings, fire_vars>>

\* portfolio.add_asset(name, category, value, target_allocation, risk_level,
\* currency)
CallAddAsset ==
    /\ Idle
    /\ Len(assets) < MaxAssets
    /\ \E a \in AddAssetCalls :
          \E out \in {add_asset(assets, a[1], a[2], a[3], a[4], a[5], a[6])} :
              /\ args' = a
              /\ result' = out.result
              /\ assets' = out.assets
    /\ op' = "add_asset"
    /\ pc' = "returned"
    /\ UNCHANGED <<holdings, fire_vars>>

\* portfolio.calculate_risk_score()
CallRiskScore ==
    /\ Idle
    /\ args' = <<>>
    /\ result' = calculate_risk_score(assets)
    /\ op' = "calculate_risk_score"
    /\ pc' = "returned"
    /\ UNCHANGED <<holdings, assets, fire_vars>>

\* portfolio.suggest_rebalancing(tolerance)
CallSuggestRebalancing ==
    /\ Idle
    /\ \E tolerance \in Tolerances :
          /\ args' = <<tolerance>>
          /\ result' = suggest_rebalancing(assets, tolerance)
    /\ op' = "suggest_rebalancing"
    /\ pc' = "returned"
    /\ UNCHANGED <<holdings, assets, fire_vars>>

NextPortfolio ==
    \/ ConstructPortfolio
    \/ CallAddAsset
    \/ CallRiskScore
    \/ CallSuggestRebalancing

SpecPortfolio == Init /\ [][NextPortfolio]_vars

----------------------------------------------------------------------------
(* Properties of calculate_fire_number and calculate_years_to_fire,         *)
(* checked under Spec                                                      *)

Abs(x) == IF x < 0 THEN -x ELSE x

\* a <= b on floats, float("inf") above every number
FloatLE(a, b) == b.inf \/ (~a.inf /\ a.v <= b.v)

FireNumberReturned == op = "calculate_fire_number" /\ pc = "returned"
YearsReturned == op = "calculate_years_to_fire" /\ pc = "returned"

\* q is expenses / swr to the nearest thousandth: |q * swr - expenses * 10^6| <= swr / 2,
\* the difference taken limb by limb.
IsQuotient(q, expenses, swr) ==
    LET d == (q \div 1000) * swr - expenses * 1000
    IN  2 * Abs(1000 * d + (q % 1000) * swr) <= swr

\* C1: for every profile with safe_withdrawal_rate > 0, calculate_fire_number
\* returns annual_expenses / safe_withdrawal_rate, and the result is > 0
\* whenever annual_expenses > 0.
C1_FireNumberIsQuotient ==
    (FireNumberReturned /\ calc.safe_withdrawal_rate > 0) =>
        /\ result.kind = "return"
        /\ ~result.value.inf
        /\ IsQuotient(result.value.v, calc.annual_expenses, calc.safe_withdrawal_rate)
        /\ (calc.annual_expenses > 0 => result.value.v > 0)

C1_Witness ==
    /\ FireNumberReturned
    /\ calc.safe_withdrawal_rate = 30
    /\ calc.annual_expenses = 480
    /\ result = Return(Num(Money(16000)))

\* C2: for every valid profile, whatever its monthly_savings, if
\* current_net_worth >= fire_number then calculate_years_to_fire returns 0.
C2_AlreadyMetReturnsZero ==
    (YearsReturned /\ Valid(calc) /\ Money(calc.current_net_worth) >= fire_number) =>
        result = Return(Num(0))

\* C3: whenever monthly_savings <= 0, calculate_years_to_fire returns
\* float("inf") without entering its loop, whether or not the target is
\* already met and whatever annual_return is.
C3_NoSavingsIsNever ==
    (op = "calculate_years_to_fire" /\ calc.safe_withdrawal_rate > 0
        /\ calc.monthly_savings <= 0) =>
        /\ pc = "returned"
        /\ result = Return(Inf)
        /\ months = 0

C3_Witness ==
    /\ YearsReturned
    /\ calc.monthly_savings <= 0
    /\ calc.annual_return < 0
    /\ calc.annual_expenses > 0
    /\ Money(calc.current_net_worth) >= fire_number
    /\ result = Return(Inf)

\* C4: over valid profiles, calculate_years_to_fire does not increase when
\* monthly_savings grows with the other fields fixed, nor when annual_return
\* grows with the other fields fixed (float("inf") above every number).
C4_YearsMonotone ==
    (YearsReturned /\ Valid(calc)) =>
        /\ \A s \in SavingsAmounts :
              s > calc.monthly_savings =>
                  FloatLE(calculate_years_to_fire([calc EXCEPT !.monthly_savings = s]).value,
                          result.value)
        /\ \A r \in Returns :
              r > calc.annual_return =>
                  FloatLE(calculate_years_to_fire([calc EXCEPT !.annual_return = r]).value,
                          result.value)

\* a larger return and a larger saving each give a strictly earlier date
C4_Witness ==
    /\ YearsReturned
    /\ Valid(calc)
    /\ ~result.value.inf
    /\ result.value.v > 0
    /\ \E r \in Returns :
          /\ r > calc.annual_return
          /\ calculate_years_to_fire([calc EXCEPT !.annual_return = r]).value.v
                < result.value.v
    /\ \E s \in SavingsAmounts :
          /\ s > calc.monthly_savings
          /\ calculate_years_to_fire([calc EXCEPT !.monthly_savings = s]).value.v
                < result.value.v

\* C5: calculate_years_to_fire runs its loop at most 1200 times; when
\* monthly_savings > 0 the result lies between 0 and 100 years, and is exactly
\* 100 when the net worth is below the target after 1200 months.
C5_LoopBounded ==
    op = "calculate_years_to_fire" =>
        /\ months <= MonthsPerYear * MaxYears
        /\ (pc = "returned" /\ result.kind = "return" /\ calc.monthly_savings > 0) =>
              /\ ~result.value.inf
              /\ result.value.v >= 0
              /\ result.value.v <= MaxYears * YearScale
              /\ (~YearsEntry(calc).returns /\ net_worth < fire_number) =>
                    /\ months = MonthsPerYear * MaxYears
                    /\ result.value.v = MaxYears * YearScale

C5_Witness ==
    /\ YearsReturned
    /\ calc.monthly_savings > 0
    /\ months = MonthsPerYear * MaxYears
    /\ net_worth < fire_number
    /\ result = Return(Num(MaxYears * YearScale))

\* C10: a profile with safe_withdrawal_rate = 0 or annual_return <= -1 is
\* rejected by the constructor, so no calculator holds such fields.
C10_InvalidProfileRejected ==
    calc # NoCalc =>
        /\ calc.safe_withdrawal_rate # 0
        /\ calc.annual_return > -1000

----------------------------------------------------------------------------
(* Properties of generate_timeline, calculate_coast_fire and summary,      *)
(* checked under Spec                                                      *)

TimelineReturned == op = "generate_timeline" /\ pc = "returned"
CoastFireReturned == op = "calculate_coast_fire" /\ pc = "returned"
SummaryReturned == op = "summary" /\ pc = "returned"

\* The compounding recurrence applied n times to nw
RECURSIVE Iterate(_, _, _, _)
Iterate(self, nw, rate, n) ==
    IF n = 0 THEN nw
    ELSE Bind(Iterate(self, nw, rate, n - 1), LAMBDA prev : Compound(self, prev, rate))

\* C6: for every valid profile and every horizon years >= 0,
\* generate_timeline(years) returns exactly years * 12 entries keyed
\* 0 .. years * 12 - 1, and the net_worth of the last entry is the recurrence
\* applied years * 12 times to current_net_worth.
C6_TimelineFullHorizon ==
    (TimelineReturned /\ Valid(calc)) =>
        /\ result.kind = "return"
        /\ DOMAIN result.value = 0 .. (args[1] * MonthsPerYear - 1)
        /\ args[1] > 0 =>
              result.value[args[1] * MonthsPerYear - 1].net_worth =
                  Iterate(calc, Money(calc.current_net_worth), MonthlyRate(calc),
                          args[1] * MonthsPerYear)

\* The Coast FIRE amount of calc for an age pair, as a number
CoastFire(target_age, current_age) ==
    calculate_coast_fire(calc, target_age, current_age).value.v

\* C7 as stated: for every valid profile a larger age difference always gives
\* a strictly smaller Coast FIRE amount.
C7_CoastFireStrictlyDecreasing ==
    (CoastFireReturned /\ Valid(calc)) =>
        \A target_age \in Ages, current_age \in Ages :
            target_age - current_age > args[1] - args[2] =>
                CoastFire(target_age, current_age) < result.value.v

\* C7, amended: for every valid profile a larger age difference gives a
\* strictly smaller Coast FIRE amount when annual_return > 0 and
\* annual_expenses > 0, the same amount when annual_return = 0 or
\* annual_expenses = 0, and a strictly larger amount when annual_return < 0
\* and annual_expenses > 0.
C7_CoastFireFollowsReturn ==
    (CoastFireReturned /\ Valid(calc)) =>
        /\ result.kind = "return"
        /\ \A target_age \in Ages, current_age \in Ages :
              target_age - current_age > args[1] - args[2] =>
                  IF calc.annual_expenses = 0 \/ calc.annual_return = 0
                  THEN CoastFire(target_age, current_age) = result.value.v
                  ELSE IF calc.annual_return > 0
                  THEN CoastFire(target_age, current_age) < result.value.v
                  ELSE CoastFire(target_age, current_age) > result.value.v

C7_Witness ==
    /\ CoastFireReturned
    /\ Valid(calc)
    /\ calc.annual_return > 0
    /\ calc.annual_expenses > 0
    /\ args[1] - args[2] = 1
    /\ result.kind = "return"
    /\ CoastFire(args[1] + 1, args[2]) < result.value.v
    /\ result.value.v < calculate_fire_number(calc).value.v

\* C9: whenever calculate_years_to_fire returns, summary returns too; its
\* years_to_fire is never float("inf"), is None exactly when
\* calculate_years_to_fire returns float("inf"), and is otherwise the number
\* calculate_years_to_fire returns.
C9_SummaryHidesInfinity ==
    (SummaryReturned /\ calculate_years_to_fire(calc).kind = "return") =>
        /\ result.kind = "return"
        /\ result.value.years_to_fire # Inf
        /\ (result.value.years_to_fire = NoneVal) <=>
              (calculate_years_to_fire(calc).value = Inf)
        /\ calculate_years_to_fire(calc).value # Inf =>
              result.value.years_to_fire = calculate_years_to_fire(calc).value

C9_Witness ==
    /\ SummaryReturned
    /\ calc.monthly_savings <= 0
    /\ calculate_years_to_fire(calc) = Return(Inf)
    /\ result.kind = "return"
    /\ result.value.years_to_fire = NoneVal

----------------------------------------------------------------------------
(* Properties of simulate_scenarios, checked under SpecScenarios           *)

ScenariosReturned == op = "simulate_scenarios" /\ pc = "returned"

\* The (savings, return) pairs of a call, by position
ScenarioPairs(savings_rates, returns) ==
    (1 .. Len(savings_rates)) \X (1 .. Len(returns))

\* No two pairs of the call format to the same label
DistinctLabels(savings_rates, returns) ==
    \A p \in ScenarioPairs(savings_rates, returns),
       q \in ScenarioPairs(savings_rates, returns) :
        p # q => ScenarioName(savings_rates[p[1]], returns[p[2]]) #
                 ScenarioName(savings_rates[q[1]], returns[q[2]])

\* C8: on a valid base profile, when the pairs format to pairwise distinct
\* labels, simulate_scenarios returns len(savings) * len(returns) entries and
\* each entry's years and fire_number are those of a calculator built from the
\* base current_net_worth, annual_expenses and safe_withdrawal_rate with the
\* pair's own savings and return.
C8_ScenariosAreIndependent ==
    (ScenariosReturned /\ Valid(calc) /\ DistinctLabels(args[1], args[2])) =>
        /\ result.kind = "return"
        /\ Cardinality(DOMAIN result.value) = Len(args[1]) * Len(args[2])
        /\ \A p \in ScenarioPairs(args[1], args[2]) :
              LET savings == args[1][p[1]]
                  return_rate == args[2][p[2]]
                  own == [calc EXCEPT !.monthly_savings = savings,
                                      !.annual_return = return_rate]
                  name == ScenarioName(savings, return_rate)
              IN  /\ name \in DOMAIN result.value
                  /\ result.value[name].years = calculate_years_to_fire(own).value
                  /\ result.value[name].fire_number = calculate_fire_number(own).value

C8_Witness ==
    /\ ScenariosReturned
    /\ Valid(calc)
    /\ calc.monthly_savings = 0
    /\ calc.annual_expenses > 0
    /\ args = << <<200, 300>>, <<60, 80>> >>
    /\ result.kind = "return"
    /\ Cardinality(DOMAIN result.value) = 4
    /\ \A name \in DOMAIN result.value : ~result.value[name].years.inf

----------------------------------------------------------------------------
(* Properties of InvestmentPortfolio, checked under SpecInvestment         *)

TotalValueReturned == op = "total_value" /\ pc = "returned"
WeightsReturned == op = "weights" /\ pc = "returned"

\* The sum of the values of a function with a finite domain
RECURSIVE SetSum(_)
SetSum(f) ==
    IF DOMAIN f = {} THEN 0
    ELSE LET x == CHOOSE y \in DOMAIN f : TRUE
         IN  f[x] + SetSum([y \in DOMAIN f \ {x} |-> f[y]])

\* The held tickers that the snapshot of the call prices
PricedHoldings == DOMAIN holdings \cap DOMAIN args[1]

\* quantity x price summed over the priced holdings of the call
PricedTotal == SetSum([t \in PricedHoldings |-> holdings[t] * args[1][t]])

\* C11: total_value returns the sum of quantity x price over exactly the
\* holdings whose ticker is in the snapshot; a holding without a price adds
\* nothing and raises nothing, and prices of tickers not held are ignored.
C11_TotalValueSumsPricedHoldings ==
    TotalValueReturned => result = Return(Num(PricedTotal))

C11_Witness ==
    /\ TotalValueReturned
    /\ DOMAIN holdings \ DOMAIN args[1] # {}
    /\ DOMAIN args[1] \ DOMAIN holdings # {}
    /\ Cardinality(PricedHoldings) = 1
    /\ result.kind = "return"
    /\ result.value.v > 0

\* C12: the keys of weights are exactly the held tickers that have a price
\* when the total value is non-zero, and the result is the empty mapping when
\* the total value is zero.
C12_WeightsKeys ==
    WeightsReturned =>
        /\ result.kind = "return"
        /\ IF PricedTotal = 0 THEN result.value = <<>>
           ELSE DOMAIN result.value = PricedHoldings

C12_Witness ==
    /\ WeightsReturned
    /\ PricedTotal # 0
    /\ DOMAIN holdings \ DOMAIN args[1] # {}
    /\ result.kind = "return"
    /\ DOMAIN result.value = PricedHoldings
    /\ DOMAIN result.value # DOMAIN holdings

\* Every weight of the returned mapping lies in [0, 1] and the weights sum to
\* 1 up to the rounding of each weight.
Normalized(w) ==
    /\ \A t \in DOMAIN w : 0 <= w[t] /\ w[t] <= RateScale
    /\ Abs(SetSum(w) - RateScale) <= Cardinality(DOMAIN w)

\* C13 as stated: whenever weights returns a non-empty mapping, every weight
\* lies between 0 and 1 and the weights sum to 1.
C13_WeightsNormalized ==
    (WeightsReturned /\ result.kind = "return" /\ result.value # <<>>) =>
        Normalized(result.value)

\* The part of C13 the code does keep: whenever weights returns a non-empty
\* mapping and no priced holding has a negative quantity or a negative price,
\* every weight lies between 0 and 1 and the weights sum to 1.
C13_NonNegativeWeightsNormalized ==
    (/\ WeightsReturned
     /\ result.kind = "return"
     /\ result.value # <<>>
     /\ \A t \in PricedHoldings : holdings[t] >= 0 /\ args[1][t] >= 0) =>
        Normalized(result.value)

C13_Witness ==
    /\ WeightsReturned
    /\ result.kind = "return"
    /\ Cardinality(DOMAIN result.value) = 2
    /\ \A t \in DOMAIN result.value :
          holdings[t] > 0 /\ 0 < result.value[t] /\ result.value[t] < RateScale
    /\ \E t \in DOMAIN result.value, u \in DOMAIN result.value :
          result.value[t] # result.value[u]

----------------------------------------------------------------------------
(* Properties of Portfolio, checked under SpecPortfolio                    *)

AddAssetReturned == op = "add_asset" /\ pc = "returned"
RiskScoreReturned == op = "calculate_risk_score" /\ pc = "returned"
SuggestReturned == op = "suggest_rebalancing" /\ pc = "returned"

\* The total value of the assets, summed by position
AssetsTotal == SetSum([i \in 1 .. Len(assets) |-> assets[i].value])

\* The share of asset i in the total value (0 when the total is zero)
OwnAllocation(i) ==
    IF AssetsTotal = 0 THEN 0
    ELSE ScaledRatio(assets[i].value, AssetsTotal, RateScale)

\* C14: suggest_rebalancing has a suggestion for an asset if and only if its
\* current allocation differs from its target by strictly more than the
\* tolerance; the action is sell above the target and buy below it, and the
\* amount is |current - target| x total_value.
C14_SuggestionsFollowDrift ==
    SuggestReturned =>
        /\ result.kind = "return"
        /\ \A i \in 1 .. Len(assets) :
              LET diff == OwnAllocation(i) - assets[i].target_allocation
                  name == assets[i].name
              IN  /\ (name \in DOMAIN result.value) <=> (Abs(diff) > args[1])
                  /\ name \in DOMAIN result.value =>
                        /\ result.value[name].action = IF diff > 0 THEN "sell" ELSE "buy"
                        /\ result.value[name].amount = FMul(Abs(diff), Money(AssetsTotal))

\* The step is a call of add_asset that has returned or raised
AddAssetStep == op' = "add_asset" /\ pc' = "returned"

\* A successful add_asset appends one asset and keeps the earlier ones
AppendsOne ==
    /\ Len(assets') = Len(assets) + 1
    /\ SubSeq(assets', 1, Len(assets)) = assets
    /\ assets'[Len(assets')].name = args'[1]
    /\ assets'[Len(assets')].value = args'[3]

\* C15 as stated: add_asset with a category outside the closed set or a risk
\* level outside 1..5 raises ValueError and leaves the asset list unchanged;
\* a successful add_asset appends exactly one asset and leaves the others
\* unchanged.
C15_AddAssetValidates ==
    [][AddAssetStep =>
          /\ (args'[2] \notin AssetClass \/ args'[5] \notin RiskLevel) =>
                (result' = Raise("ValueError") /\ assets' = assets)
          /\ result'.kind = "return" => AppendsOne]_vars

\* C15, amended: add_asset with a category whose lower-case form is outside
\* the closed set, or a risk level outside 1..5, raises ValueError and leaves
\* the asset list unchanged; every other add_asset returns, appends exactly
\* one asset and leaves the others unchanged.
C15_AddAssetValidatesLowerCase ==
    [][AddAssetStep =>
          IF Lower(args'[2]) \notin AssetClass \/ args'[5] \notin RiskLevel
          THEN result' = Raise("ValueError") /\ assets' = assets
          ELSE result' = Return(NoneVal) /\ AppendsOne]_vars

C15_Witness ==
    /\ AddAssetReturned
    /\ Lower(args[2]) \notin AssetClass
    /\ result = Raise("ValueError")
    /\ Len(assets) = 1
    /\ assets[1].category = "stocks"

\* The weighted sum of the risk levels, by position
AssetsWeightedRisk ==
    SetSum([i \in 1 .. Len(assets) |-> assets[i].value * assets[i].risk_level])

\* score is twice the rounded quotient AssetsWeightedRisk / AssetsTotal
TwiceWeightedAverage(score) ==
    /\ score % 2 = 0
    /\ 2 * Abs((score \div 2) * AssetsTotal - AssetsWeightedRisk * ScoreScale)
           <= Abs(AssetsTotal)

\* C16 as stated: for every portfolio, the empty one and one of total value
\* zero included, calculate_risk_score returns twice the value-weighted
\* average of the risk levels, and the score lies on the 1-10 scale.
C16_RiskScoreOnScale ==
    RiskScoreReturned =>
        /\ result.kind = "return"
        /\ AssetsTotal # 0
        /\ TwiceWeightedAverage(result.value.v)
        /\ ScoreScale <= result.value.v
        /\ result.value.v <= 10 * ScoreScale

\* What calculate_risk_score does instead: it returns 0.0 when the total value
\* is zero (the empty portfolio included) and otherwise twice the
\* value-weighted average of the risk levels; the score stays on the 1-10
\* scale only when the total is not zero and no asset has a negative value.
C16_RiskScoreOrZero ==
    RiskScoreReturned =>
        /\ result.kind = "return"
        /\ IF AssetsTotal = 0 THEN result.value = Num(0)
           ELSE /\ TwiceWeightedAverage(result.value.v)
                /\ (\A i \in 1 .. Len(assets) : assets[i].value >= 0) =>
                      /\ ScoreScale <= result.value.v
                      /\ result.value.v <= 10 * ScoreScale

C16_Witness ==
    /\ RiskScoreReturned
    /\ Len(assets) = 2
    /\ assets[1].risk_level # assets[2].risk_level
    /\ assets[1].value > 0
    /\ assets[2].value > assets[1].value
    /\ result.kind = "return"
    /\ 2 * ScoreScale < result.value.v
    /\ result.value.v < 10 * ScoreScale

----------------------------------------------------------------------------
(* Properties of the loop of calculate_years_to_fire, of label collisions, *)
(* of the two copies and of the timeline against years-to-fire             *)

\* The profile is one the loop of calculate_years_to_fire runs for
LoopProfile ==
    /\ calc # NoCalc
    /\ calc.safe_withdrawal_rate # 0
    /\ calc.monthly_savings > 0
    /\ Money(calc.current_net_worth) < calculate_fire_number(calc).value.v

\* C17 (under SpecCopies): with monthly_savings > 0 and current_net_worth below the
\* target, every iteration starts strictly below the target and applies the
\* recurrence once, and the call returns months / 12 for the first month
\* count n >= 1 at which the net worth is >= fire_number, or for 1200.
C17_LeastMonth ==
    /\ [](YearsReturned /\ LoopProfile =>
            /\ months >= 1
            /\ months <= 1200
            /\ (net_worth >= fire_number \/ months = 1200)
            /\ result.kind = "return"
            /\ ~result.value.inf
            /\ Abs(result.value.v * 12 - months * YearScale) <= 6)
    /\ [][(op = "calculate_years_to_fire" /\ pc = "loop" /\ months' # months) =>
            /\ net_worth < fire_number
            /\ months < 1200
            /\ months' = months + 1
            /\ net_worth' = FMul(net_worth, RateScale + monthly_rate)
                               + calc.monthly_savings * MoneyScale]_vars

C17_Witness ==
    /\ YearsReturned
    /\ LoopProfile
    /\ calc.annual_return > 0
    /\ months > 1
    /\ months < 1200
    /\ net_worth >= fire_number
    /\ result = Return(Num(YearsOf(months)))

\* The pairs of the call whose label is name
PairsNamed(name) ==
    {p \in ScenarioPairs(args[1], args[2]) :
        ScenarioName(args[1][p[1]], args[2][p[2]]) = name}

\* The last of a set of pairs in iteration order: savings outer, returns inner
LastPair(pairs) ==
    CHOOSE p \in pairs :
        \A q \in pairs : q[1] < p[1] \/ (q[1] = p[1] /\ q[2] <= p[2])

\* C18 (under SpecScenarios): on a valid base profile simulate_scenarios
\* raises nothing when labels collide; the result has one entry per distinct
\* label, and the entry's savings, return and years are those of the last
\* pair with that label in iteration order.
C18_LastCollidingPairWins ==
    (ScenariosReturned /\ Valid(calc)) =>
        /\ result.kind = "return"
        /\ DOMAIN result.value =
              {ScenarioName(args[1][p[1]], args[2][p[2]]) :
                  p \in ScenarioPairs(args[1], args[2])}
        /\ \A name \in DOMAIN result.value :
              LET last == LastPair(PairsNamed(name))
                  own == [calc EXCEPT !.monthly_savings = args[1][last[1]],
                                      !.annual_return = args[2][last[2]]]
              IN  /\ result.value[name].savings = args[1][last[1]]
                  /\ result.value[name].return = args[2][last[2]]
                  /\ result.value[name].years = calculate_years_to_fire(own).value

C18_Witness ==
    /\ ScenariosReturned
    /\ Valid(calc)
    /\ calc.annual_expenses > 0
    /\ args = << <<200>>, <<60, 65>> >>
    /\ result.kind = "return"
    /\ Cardinality(DOMAIN result.value) = 1
    /\ \A name \in DOMAIN result.value :
          /\ result.value[name].return = 65
          /\ result.value[name].years #
                calculate_years_to_fire([calc EXCEPT !.monthly_savings = 200,
                                                     !.annual_return = 60]).value

TopYearsReturned ==
    op = "fire_calculator.calculate_years_to_fire" /\ pc = "returned"

\* C19 (under SpecCopies): for every profile, calculate_years_to_fire of
\* src/f1nanc3/fire_calculator.py and of src/fire_calculator.py return or
\* raise the same, also when monthly_savings <= 0 and the target is already
\* met, where both give float("inf").
C19_CopiesAgree ==
    /\ YearsReturned => result = Top_calculate_years_to_fire(calc)
    /\ TopYearsReturned => result = calculate_years_to_fire(calc)
    /\ (/\ (TopYearsReturned \/ YearsReturned)
        /\ calc.safe_withdrawal_rate # 0
        /\ calc.monthly_savings <= 0
        /\ Money(calc.current_net_worth) >= calculate_fire_number(calc).value.v)
          => result = Return(Inf)

C19_Witness ==
    /\ TopYearsReturned
    /\ calc.safe_withdrawal_rate # 0
    /\ calc.monthly_savings <= 0
    /\ calc.annual_expenses > 0
    /\ Money(calc.current_net_worth) >= calculate_fire_number(calc).value.v
    /\ result = Return(Inf)
    /\ result = calculate_years_to_fire(calc)

\* The month count calculate_years_to_fire returns for calc
MonthsToFire ==
    (calculate_years_to_fire(calc).value.v * 12 + (YearScale \div 2)) \div YearScale

\* C20 (under Spec): with monthly_savings > 0 and current_net_worth below the
\* target, when calculate_years_to_fire returns n / 12 with n < 1200 and the
\* horizon covers n months, timeline entry n - 1 is the first whose net_worth
\* is >= fire_number (progress >= 100) and every earlier entry is below it
\* (progress < 100).
C20_TimelineAgreesWithYears ==
    (/\ TimelineReturned
     /\ LoopProfile
     /\ MonthsToFire < 1200
     /\ MonthsToFire <= args[1] * MonthsPerYear) =>
        /\ result.kind = "return"
        /\ result.value[MonthsToFire - 1].net_worth >= calculate_fire_number(calc).value.v
        /\ result.value[MonthsToFire - 1].progress >= 100 * PercentScale
        /\ \A k \in 0 .. (MonthsToFire - 2) :
              /\ result.value[k].net_worth < calculate_fire_number(calc).value.v
              /\ result.value[k].progress < 100 * PercentScale

C20_Witness ==
    /\ TimelineReturned
    /\ LoopProfile
    /\ result.kind = "return"
    /\ MonthsToFire >= 2
    /\ MonthsToFire < args[1] * MonthsPerYear
    /\ result.value[MonthsToFire - 1].progress >= 100 * PercentScale
    /\ result.value[MonthsToFire - 2].progress < 100 * PercentScale
    /\ result.value[MonthsToFire].progress > result.value[MonthsToFire - 1].progress

====
